---- MODULE Spec2Model ----
(***************************************************************************)
(* Model of tixte_exporter.py: the completion ledger (load_downloaded,     *)
(* save_downloaded), the retrying fetcher (download_file) and the batch    *)
(* driver (main) with its rolling log buffer (add_log), over several       *)
(* consecutive runs of the program against the same working directory.     *)
(* Sleeps are recorded by their duration, in units of half a second.       *)
(*                                                                         *)
(* Strings are sequences of one-character strings, so that os.path.join,   *)
(* os.path.split and str.strip are computed, not assumed.                  *)
(***************************************************************************)
EXTENDS Integers, Sequences, FiniteSets, TLC

\* ---------------------------------------------------------------- bounds
MaxRows == 2
MaxRetriesBound == 1
MaxChunks == 1
MaxRuns == 2

\* ------------------------------------------------------- string helpers
Sep == "/"
Whitespace == {" "}

SetMin(S) == CHOOSE i \in S : \A j \in S : i <= j
SetMax(S) == CHOOSE i \in S : \A j \in S : j <= i

\* str.strip(): drop the whitespace at both ends
strip(s) ==
  LET keep == {i \in 1..Len(s) : s[i] \notin Whitespace}
  IN  IF keep = {} THEN <<>> ELSE SubSeq(s, SetMin(keep), SetMax(keep))

\* positions of the separator in p
sep_positions(p) == {i \in 1..Len(p) : p[i] = Sep}

\* str.rfind("/") + 1
rfind_sep(p) == IF sep_positions(p) = {} THEN 0 ELSE SetMax(sep_positions(p))

\* posixpath.split, the head: everything up to the last separator, without
\* its trailing separators unless it consists of separators only
split_head(p) ==
  LET nonsep == {k \in 1..rfind_sep(p) : p[k] # Sep}
  IN  IF nonsep = {} THEN SubSeq(p, 1, rfind_sep(p))
      ELSE SubSeq(p, 1, SetMax(nonsep))

\* posixpath.split, the tail: everything after the last separator
split_tail(p) == SubSeq(p, rfind_sep(p) + 1, Len(p))

\* posixpath.split: <<head, tail>>
os_path_split(p) == <<split_head(p), split_tail(p)>>

os_path_dirname(p) == split_head(p)

\* posixpath.join(a, b)
os_path_join(a, b) ==
  IF b # <<>> /\ b[1] = Sep THEN b
  ELSE IF a = <<>> \/ a[Len(a)] = Sep THEN a \o b
  ELSE a \o <<Sep>> \o b

\* ------------------------------------------------------------ manifest
RowA == [Filename |-> <<"a">>, Extension |-> <<"x">>]
RowN == [Filename |-> <<"d", "/", "a">>, Extension |-> <<"x">>]
RowSet == {RowA, RowN}

Roots == {<<"o">>, <<"p">>}

\* save_name = f"{filename}.{extension}"
save_name_of(row) == row.Filename \o <<".">> \o row.Extension

\* save_path = os.path.join(args.output, save_name)
save_path_of(out, row) == os_path_join(out, save_name_of(row))

Manifests == UNION {[1..n -> RowSet] : n \in 1..MaxRows}


\* ------------------------------------------------------ completion ledger
\* load_downloaded(output_dir) over the lines of downloaded.log
load_downloaded(output_dir, log) ==
  {os_path_join(output_dir, split_tail(l)) :
     l \in {strip(log[j]) : j \in 1..Len(log)} \ {<<>>}}

\* save_downloaded(file_path): append one line
save_downloaded(log, file_path) == Append(log, file_path)

\* ---------------------------------------------------------- file system
NoDir == <<>>

\* glob.glob(os.path.join(directory, '**', filename), recursive=True) over
\* the relative paths of the files below directory
file_exists_in_directory(tree, filename) ==
  \E f \in tree :
     \/ f = filename
     \/ /\ Len(f) > Len(filename)
        /\ SubSeq(f, Len(f) - Len(filename), Len(f)) = <<Sep>> \o filename

\* os.makedirs(d, exist_ok=True): d and the directories above it
makedirs(ds, d) ==
  UNION {IF dd = <<>> THEN ds
         ELSE ds \cup {dd}
                 \cup ({split_head(SubSeq(dd, 1, i)) : i \in sep_positions(dd)} \ {<<>>}) :
         dd \in {d}}

\* an existence test that never finds anything
os_path_exists_never(fs, ds, p) == FALSE

\* os.path.exists(p)
os_path_exists(fs, ds, p) == p \in DOMAIN fs \/ p \in ds

\* the destination opened for appending instead of truncated
open_ab(old) == old

\* open(save_path, 'wb'): the content the file has right after opening
open_wb(old) == <<>>

\* f.write(chunk)
write_file(fs, p, content) ==
  [q \in DOMAIN fs \cup {p} |-> IF q = p THEN content ELSE fs[q]]

\* a file is the sequence of the chunks written to it; a chunk is
\* <<its position in the response body, chunks in that body>>; a file that
\* was there before the first run holds something else
PreExisting == << <<0, 0>> >>
NoFiles == [q \in {} |-> <<>>]

\* ---------------------------------------------------------------- state
VARIABLES
  manifest, output, dry_run, local_check_dir, local_tree, max_retries,
  base_delay, jitter,
  ledgerFile, files, dirs,
  downloaded, idx, pc,
  downloaded_count, skipped_logged, skipped_exists_output,
  skipped_exists_local, skipped_dry_run,
  attempt, body, bytes_downloaded, sleep_time,
  exit_status, summary, log_messages,
  run, gets, outcomes, last_run, ledgerAtStart, logged

config == <<manifest, output, dry_run, local_check_dir, local_tree, max_retries,
            base_delay, jitter>>
disk == <<ledgerFile, files, dirs>>
counters == <<downloaded_count, skipped_logged, skipped_exists_output,
              skipped_exists_local, skipped_dry_run>>
fetcher == <<attempt, body, bytes_downloaded, gets>>
reporter == <<log_messages, logged>>
vars == <<manifest, output, dry_run, local_check_dir, local_tree, max_retries,
          base_delay, jitter, sleep_time,
          ledgerFile, files, dirs, downloaded, idx, pc,
          downloaded_count, skipped_logged, skipped_exists_output,
          skipped_exists_local, skipped_dry_run,
          attempt, body, bytes_downloaded, exit_status, summary,
          run, gets, outcomes, last_run, ledgerAtStart, log_messages, logged>>

NoSummary == [printed |-> FALSE]
NoRun == [end |-> "none", outcomes |-> <<>>]

InitialLedgers == {<<>>, << <<" ">>, save_path_of(<<"p">>, RowA) >>}
LocalTrees == {{}, {<<"s", "/", "a", ".", "x">>}}

\* --delay and --jitter in units of half a second: the defaults (1.0 s and
\* 0.5 s, lines 34-35), a shorter delay without jitter, a longer one
DefaultTiming == [delay |-> 2, jitter |-> 1]
Timings == {DefaultTiming, [delay |-> 1, jitter |-> 0], [delay |-> 3, jitter |-> 2]}

\* random.uniform(a, b): some value between a and b, in the same units
uniform(a, b) == a..b

\* pc of the first loop iteration, or past the loop for an empty manifest
LoopPc(i, rows) == IF i <= Len(rows) THEN "check" ELSE "summary"

\* main, lines 150-228: state when the batch loop is entered, for the given
\* choices of --delay/--jitter and of --max-retries
InitFor(timings, retries) ==
  /\ manifest \in Manifests
  /\ output = <<"o">>
  /\ dry_run \in BOOLEAN
  /\ local_tree \in LocalTrees
  /\ local_check_dir = IF local_tree = {} THEN NoDir ELSE <<"l">>
  /\ max_retries \in retries
  /\ \E t \in timings : base_delay = t.delay /\ jitter = t.jitter
  /\ ledgerFile \in InitialLedgers
  /\ \E pre \in BOOLEAN :
        files = IF pre THEN write_file(NoFiles, save_path_of(output, RowA), PreExisting)
                ELSE NoFiles
  /\ dirs = makedirs({}, output)
  /\ downloaded = load_downloaded(output, ledgerFile)
  /\ idx = 1
  /\ pc = LoopPc(1, manifest)
  /\ downloaded_count = 0
  /\ skipped_logged = 0
  /\ skipped_exists_output = 0
  /\ skipped_exists_local = 0
  /\ skipped_dry_run = 0
  /\ attempt = 0
  /\ body = 0
  /\ bytes_downloaded = 0
  /\ sleep_time = 0
  /\ exit_status = -1
  /\ summary = NoSummary
  /\ run = 1
  /\ gets = 0
  /\ outcomes = <<>>
  /\ last_run = NoRun
  /\ ledgerAtStart = ledgerFile
  /\ log_messages = <<>>
  /\ logged = <<>>

\* the program run with the default --delay and with --jitter 0
Init == InitFor({[delay |-> DefaultTiming.delay, jitter |-> 0]}, 0..MaxRetriesBound)


\* ---------------------------------------------------------- batch driver
row == manifest[idx]
save_name == save_name_of(row)
save_path == save_path_of(output, row)

\* line 239: os.makedirs(os.path.dirname(save_path), exist_ok=True)
dirs_after_makedirs == makedirs(dirs, os_path_dirname(save_path))

\* the local-directory check placed before the output-directory check
skip_rule_local_first(sp, sn, dl, fs, ds, lcd, tree, dry) ==
  IF sp \in dl THEN "logged"
  ELSE IF lcd # NoDir /\ file_exists_in_directory(tree, sn) THEN "local"
  ELSE IF os_path_exists(fs, ds, sp) THEN "exists"
  ELSE IF dry THEN "dry"
  ELSE "fetch"

\* the dry-run check placed after the download instead of before it
skip_rule_no_dry(sp, sn, dl, fs, ds, lcd, tree, dry) ==
  IF sp \in dl THEN "logged"
  ELSE IF os_path_exists(fs, ds, sp) THEN "exists"
  ELSE IF lcd # NoDir /\ file_exists_in_directory(tree, sn) THEN "local"
  ELSE "fetch"

\* the skip checks without the test for the file in the output directory
skip_rule_no_exists(sp, sn, dl, fs, ds, lcd, tree, dry) ==
  IF sp \in dl THEN "logged"
  ELSE IF lcd # NoDir /\ file_exists_in_directory(tree, sn) THEN "local"
  ELSE IF dry THEN "dry"
  ELSE "fetch"

\* lines 241-268: the first matching skip check, "fetch" when none matches
skip_rule(sp, sn, dl, fs, ds, lcd, tree, dry) ==
  IF sp \in dl THEN "logged"
  ELSE IF os_path_exists(fs, ds, sp) THEN "exists"
  ELSE IF lcd # NoDir /\ file_exists_in_directory(tree, sn) THEN "local"
  ELSE IF dry THEN "dry"
  ELSE "fetch"

rule_here ==
  skip_rule(save_path, save_name, downloaded, files, dirs_after_makedirs,
            local_check_dir, local_tree, dry_run)

\* progress.update(task, advance=1); continue / end of the loop body
Advance ==
  /\ idx' = idx + 1
  /\ pc' = LoopPc(idx + 1, manifest)

\* line 209: the number of entries add_log keeps
LogWindow == 20

\* lines 205-206: the entry made of the n-th message passed to add_log
log_entry(n, message) == <<n, message>>

\* the newest entry dropped instead of the oldest
add_log_pop_last(buf, entry) ==
  IF Len(Append(buf, entry)) > LogWindow THEN buf ELSE Append(buf, entry)

\* lines 207-210: append, then drop the oldest entry beyond the window
add_log(buf, entry) ==
  IF Len(Append(buf, entry)) > LogWindow THEN Tail(Append(buf, entry))
  ELSE Append(buf, entry)

\* the add_log call of an entry's outcome (lines 243, 250, 257, 264, 289, 291)
Note(o) ==
  /\ outcomes' = Append(outcomes, [i |-> idx, o |-> o])
  /\ log_messages' = add_log(log_messages, log_entry(Len(logged) + 1, o))
  /\ logged' = Append(logged, log_entry(Len(logged) + 1, o))

\* lines 232-246
SkipLogged ==
  /\ pc = "check"
  /\ rule_here = "logged"
  /\ dirs' = dirs_after_makedirs
  /\ skipped_logged' = skipped_logged + 1
  /\ Advance
  /\ Note("logged")
  /\ UNCHANGED <<sleep_time, config, ledgerFile, files, downloaded, downloaded_count,
                 skipped_exists_output, skipped_exists_local, skipped_dry_run,
                 fetcher, exit_status, summary, run, last_run, ledgerAtStart>>

\* lines 232-253
SkipExistsOutput ==
  /\ pc = "check"
  /\ rule_here = "exists"
  /\ dirs' = dirs_after_makedirs
  /\ skipped_exists_output' = skipped_exists_output + 1
  /\ Advance
  /\ Note("exists")
  /\ UNCHANGED <<sleep_time, config, ledgerFile, files, downloaded, downloaded_count,
                 skipped_logged, skipped_exists_local, skipped_dry_run,
                 fetcher, exit_status, summary, run, last_run, ledgerAtStart>>

\* lines 232-260
SkipExistsLocal ==
  /\ pc = "check"
  /\ rule_here = "local"
  /\ dirs' = dirs_after_makedirs
  /\ skipped_exists_local' = skipped_exists_local + 1
  /\ Advance
  /\ Note("local")
  /\ UNCHANGED <<sleep_time, config, ledgerFile, files, downloaded, downloaded_count,
                 skipped_logged, skipped_exists_output, skipped_dry_run,
                 fetcher, exit_status, summary, run, last_run, ledgerAtStart>>

\* the dry-run branch without its counter
SkipDryRunUncounted ==
  /\ pc = "check"
  /\ rule_here = "dry"
  /\ dirs' = dirs_after_makedirs
  /\ skipped_dry_run' = skipped_dry_run
  /\ Advance
  /\ Note("dry")
  /\ UNCHANGED <<sleep_time, config, ledgerFile, files, downloaded, downloaded_count,
                 skipped_logged, skipped_exists_output, skipped_exists_local,
                 fetcher, exit_status, summary, run, last_run, ledgerAtStart>>

\* lines 232-268
SkipDryRun ==
  /\ pc = "check"
  /\ rule_here = "dry"
  /\ dirs' = dirs_after_makedirs
  /\ skipped_dry_run' = skipped_dry_run + 1
  /\ Advance
  /\ Note("dry")
  /\ UNCHANGED <<sleep_time, config, ledgerFile, files, downloaded, downloaded_count,
                 skipped_logged, skipped_exists_output, skipped_exists_local,
                 fetcher, exit_status, summary, run, last_run, ledgerAtStart>>

\* ------------------------------------------------------ retrying fetcher
\* the loop test off by one: one attempt too many
loop_cond_one_more(a, mr) == a <= mr + 1

\* the loop test giving up one attempt early
loop_cond_short(a, mr) == a < mr

\* line 93: while attempt <= max_retries
loop_cond(a, mr) == a <= mr

\* line 140: if attempt <= max_retries (sleep before the next attempt)
sleep_cond(a, mr) == a <= mr

\* lines 232-272 and 86-93: no skip check matched, download_file is entered
StartDownload ==
  /\ pc = "check"
  /\ rule_here = "fetch"
  /\ dirs' = dirs_after_makedirs
  /\ attempt' = 0
  /\ gets' = 0
  /\ body' = 0
  /\ bytes_downloaded' = 0
  /\ pc' = IF loop_cond(0, max_retries) THEN "get" ELSE "ret_fail"
  /\ UNCHANGED <<reporter, sleep_time, config, ledgerFile, files, downloaded, idx, counters,
                 exit_status, summary, run, outcomes, last_run, ledgerAtStart>>

\* the exponent taken from the attempt that failed, not from the next one
backoff_sleep_times_late(bd, j, a) == {bd * (2 ^ (a - 1)) + u : u \in uniform(0, j)}

\* line 141: sleep_time = base_delay * (2 ** attempt) + random.uniform(0, jitter),
\* a being the value of attempt after the increment of line 139
backoff_sleep_times(bd, j, a) == {bd * (2 ^ a) + u : u \in uniform(0, j)}

\* lines 139-143, then the loop test of line 93 when there is no sleep
FailedAttempt ==
  /\ attempt' = attempt + 1
  /\ sleep_time' \in IF sleep_cond(attempt + 1, max_retries)
                     THEN backoff_sleep_times(base_delay, jitter, attempt + 1)
                     ELSE {0}
  /\ pc' = IF sleep_cond(attempt + 1, max_retries) THEN "backoff"
           ELSE IF loop_cond(attempt + 1, max_retries) THEN "get"
           ELSE "ret_fail"
  /\ exit_status' = exit_status

\* a bare "except:" that also swallows KeyboardInterrupt
caught_by_download_file_bare(exc) ==
  exc \in {"RequestException", "Exception", "KeyboardInterrupt"}

\* only the except clause of line 131
caught_by_download_file_narrow(exc) == exc = "RequestException"

\* lines 131-137: the except clauses of download_file
caught_by_download_file(exc) == exc \in {"RequestException", "Exception"}

\* line 309: the except clause of main
caught_by_main(exc) == exc = "KeyboardInterrupt"

\* an exception that leaves download_file, or is raised in the loop body
RaisedInMain(exc) ==
  /\ pc' = IF caught_by_main(exc) THEN "interrupted" ELSE "crashed"
  /\ exit_status' = IF caught_by_main(exc) THEN 0 ELSE 1

\* an exception raised inside the try block of download_file
RaisedInFetcher(exc) ==
  IF caught_by_download_file(exc)
  THEN FailedAttempt
  ELSE RaisedInMain(exc) /\ attempt' = attempt /\ sleep_time' = sleep_time

Exceptions == {"RequestException", "Exception", "KeyboardInterrupt"}

\* line 97 answers with a status other than 200 (lines 127-130)
GetNon200 ==
  /\ pc = "get"
  /\ gets' = gets + 1
  /\ FailedAttempt
  /\ UNCHANGED <<reporter, config, disk, downloaded, idx, counters, body, bytes_downloaded, summary,
                 run, outcomes, last_run, ledgerAtStart>>

\* line 97 raises, or lines 98-104 raise before the file is opened
GetRaisesOf(excs) ==
  /\ pc = "get"
  /\ gets' = gets + 1
  /\ \E exc \in excs : RaisedInFetcher(exc)
  /\ UNCHANGED <<reporter, config, disk, downloaded, idx, counters, body,
                 bytes_downloaded, summary, run, outcomes, last_run,
                 ledgerAtStart>>

GetRaises == GetRaisesOf(Exceptions)

\* lines 97-104: status 200, the destination is opened with mode 'wb'
Get200 ==
  /\ pc = "get"
  /\ gets' = gets + 1
  /\ body' \in 1..MaxChunks
  /\ bytes_downloaded' = 0
  /\ files' = write_file(files, save_path,
                 open_wb(IF save_path \in DOMAIN files THEN files[save_path] ELSE <<>>))
  /\ pc' = "stream"
  /\ UNCHANGED <<reporter, sleep_time, config, ledgerFile, dirs, downloaded, idx, counters, attempt,
                 exit_status, summary, run, outcomes, last_run, ledgerAtStart>>

\* lines 105-109: one chunk of the body is written
StreamChunk ==
  /\ pc = "stream"
  /\ bytes_downloaded < body
  /\ files' = write_file(files, save_path,
                 Append(files[save_path], <<bytes_downloaded + 1, body>>))
  /\ bytes_downloaded' = bytes_downloaded + 1
  /\ UNCHANGED <<reporter, sleep_time, config, ledgerFile, dirs, downloaded, idx, pc, counters,
                 attempt, body, gets, exit_status, summary, run, outcomes,
                 last_run, ledgerAtStart>>

\* lines 105-118 raise while the body is streamed; the with block closes
\* the file and keeps what was written
StreamRaisesOf(excs) ==
  /\ pc = "stream"
  /\ \E exc \in excs : RaisedInFetcher(exc)
  /\ UNCHANGED <<reporter, config, disk, downloaded, idx, counters, body,
                 bytes_downloaded, gets, summary, run, outcomes, last_run,
                 ledgerAtStart>>

StreamRaises == StreamRaisesOf(Exceptions)

\* success returned although chunks of the body are still to come
StreamDoneEarly ==
  /\ pc = "stream"
  /\ bytes_downloaded <= body
  /\ pc' = "ret_ok"
  /\ UNCHANGED <<reporter, sleep_time, config, disk, downloaded, idx, counters, fetcher,
                 exit_status, summary, run, outcomes, last_run, ledgerAtStart>>

\* lines 120-126: the body is exhausted, return True
StreamDone ==
  /\ pc = "stream"
  /\ bytes_downloaded = body
  /\ pc' = "ret_ok"
  /\ UNCHANGED <<reporter, sleep_time, config, disk, downloaded, idx, counters, fetcher,
                 exit_status, summary, run, outcomes, last_run, ledgerAtStart>>

\* line 143 returns, back to the loop test of line 93
BackoffDone ==
  /\ pc = "backoff"
  /\ pc' = IF loop_cond(attempt, max_retries) THEN "get" ELSE "ret_fail"
  /\ sleep_time' = 0
  /\ UNCHANGED <<reporter, config, disk, downloaded, idx, counters, fetcher,
                 exit_status, summary, run, outcomes, last_run, ledgerAtStart>>

\* KeyboardInterrupt during time.sleep of line 143, outside the try block
BackoffInterrupted ==
  /\ pc = "backoff"
  /\ RaisedInMain("KeyboardInterrupt")
  /\ UNCHANGED <<reporter, sleep_time, config, disk, downloaded, idx, counters, fetcher, summary,
                 run, outcomes, last_run, ledgerAtStart>>


\* -------------------------------------------- driver, after download_file
\* the pause made of the jitter only
pacing_sleep_times_jitter_only(bd, j) == {u : u \in uniform(0, j)}

\* line 293: delay_time = args.delay + random.uniform(0, args.jitter)
pacing_sleep_times(bd, j) == {bd + u : u \in uniform(0, j)}

\* lines 284-289: success branch, then the delay of line 293 is drawn
RecordSuccess ==
  /\ pc = "ret_ok"
  /\ downloaded_count' = downloaded_count + 1
  /\ ledgerFile' = save_downloaded(ledgerFile, save_path)
  /\ pc' = "pace"
  /\ sleep_time' \in pacing_sleep_times(base_delay, jitter)
  /\ Note("ok")
  /\ UNCHANGED <<config, files, dirs, downloaded, idx, skipped_logged,
                 skipped_exists_output, skipped_exists_local, skipped_dry_run,
                 fetcher, exit_status, summary, run, last_run, ledgerAtStart>>

\* the ledger written in the failure branch as well
LogFailureRecords ==
  /\ pc = "ret_fail"
  /\ ledgerFile' = save_downloaded(ledgerFile, save_path)
  /\ pc' = "pace"
  /\ sleep_time' \in pacing_sleep_times(base_delay, jitter)
  /\ Note("fail")
  /\ UNCHANGED <<config, files, dirs, downloaded, idx, counters, fetcher,
                 exit_status, summary, run, last_run, ledgerAtStart>>

\* lines 284-291: failure branch, then the delay of line 293 is drawn
LogFailure ==
  /\ pc = "ret_fail"
  /\ pc' = "pace"
  /\ sleep_time' \in pacing_sleep_times(base_delay, jitter)
  /\ Note("fail")
  /\ UNCHANGED <<config, disk, downloaded, idx, counters, fetcher,
                 exit_status, summary, run, last_run, ledgerAtStart>>

\* lines 294-307: time.sleep(delay_time) returns, then the next entry
PaceDone ==
  /\ pc = "pace"
  /\ Advance
  /\ sleep_time' = 0
  /\ UNCHANGED <<reporter, config, disk, downloaded, counters, fetcher, exit_status,
                 summary, run, outcomes, last_run, ledgerAtStart>>

MainLoopPcs == {"check", "ret_ok", "ret_fail", "pace"}
LoopPcs == MainLoopPcs \cup {"get", "stream", "backoff"}

\* KeyboardInterrupt in the loop body of main, lines 231-307
MainInterrupted ==
  /\ pc \in MainLoopPcs
  /\ RaisedInMain("KeyboardInterrupt")
  /\ UNCHANGED <<reporter, sleep_time, config, disk, downloaded, idx, counters, fetcher, summary,
                 run, outcomes, last_run, ledgerAtStart>>

\* lines 313-335
Summary ==
  /\ pc = "summary"
  /\ summary' = [printed |-> TRUE,
                 total_files |-> Len(manifest),
                 downloaded_count |-> downloaded_count,
                 skipped_logged |-> skipped_logged,
                 skipped_exists_output |-> skipped_exists_output,
                 skipped_exists_local |-> skipped_exists_local,
                 skipped_dry_run |-> skipped_dry_run]
  /\ pc' = "done"
  /\ exit_status' = 0
  /\ UNCHANGED <<reporter, sleep_time, config, disk, downloaded, idx, counters, fetcher, run,
                 outcomes, last_run, ledgerAtStart>>

EndPcs == {"done", "interrupted", "crashed"}

\* the program is started again in the same working directory with the
\* same arguments: main, lines 150-228
NextRun ==
  /\ pc \in EndPcs
  /\ run < MaxRuns
  /\ run' = run + 1
  /\ last_run' = [end |-> pc, outcomes |-> outcomes]
  /\ dirs' = makedirs(dirs, output)
  /\ downloaded' = load_downloaded(output, ledgerFile)
  /\ ledgerAtStart' = ledgerFile
  /\ idx' = 1
  /\ pc' = LoopPc(1, manifest)
  /\ downloaded_count' = 0
  /\ skipped_logged' = 0
  /\ skipped_exists_output' = 0
  /\ skipped_exists_local' = 0
  /\ skipped_dry_run' = 0
  /\ attempt' = 0
  /\ body' = 0
  /\ bytes_downloaded' = 0
  /\ sleep_time' = 0
  /\ gets' = 0
  /\ exit_status' = -1
  /\ summary' = NoSummary
  /\ outcomes' = <<>>
  /\ log_messages' = <<>>
  /\ logged' = <<>>
  /\ UNCHANGED <<config, ledgerFile, files>>

Next ==
  \/ SkipLogged
  \/ SkipExistsOutput
  \/ SkipExistsLocal
  \/ SkipDryRun
  \/ StartDownload
  \/ GetNon200
  \/ GetRaises
  \/ Get200
  \/ StreamChunk
  \/ StreamRaises
  \/ StreamDone
  \/ BackoffDone
  \/ BackoffInterrupted
  \/ RecordSuccess
  \/ LogFailure
  \/ PaceDone
  \/ MainInterrupted
  \/ Summary
  \/ NextRun

Spec == Init /\ [][Next]_vars

\* one run of the program when no KeyboardInterrupt is delivered
OrdinaryExceptions == Exceptions \ {"KeyboardInterrupt"}
GetRaisesOrdinary == GetRaisesOf(OrdinaryExceptions)
StreamRaisesOrdinary == StreamRaisesOf(OrdinaryExceptions)

NextNoCancel ==
  \/ SkipLogged
  \/ SkipExistsOutput
  \/ SkipExistsLocal
  \/ SkipDryRun
  \/ StartDownload
  \/ GetNon200
  \/ GetRaisesOrdinary
  \/ Get200
  \/ StreamChunk
  \/ StreamRaisesOrdinary
  \/ StreamDone
  \/ BackoffDone
  \/ RecordSuccess
  \/ LogFailure
  \/ PaceDone
  \/ Summary

\* one run of the program; every request ends (timeout=30, line 97) and every sleep returns
SpecNoCancel == Init /\ [][NextNoCancel]_vars /\ WF_vars(NextNoCancel)

\* one run of the program, with any of the timings and one more retry
\* than in the runs that are repeated
NextOneRun ==
  \/ SkipLogged
  \/ SkipExistsOutput
  \/ SkipExistsLocal
  \/ SkipDryRun
  \/ StartDownload
  \/ GetNon200
  \/ GetRaises
  \/ Get200
  \/ StreamChunk
  \/ StreamRaises
  \/ StreamDone
  \/ BackoffDone
  \/ BackoffInterrupted
  \/ RecordSuccess
  \/ LogFailure
  \/ PaceDone
  \/ MainInterrupted
  \/ Summary

InitOneRun == InitFor(Timings, 0..(MaxRetriesBound + 1))

SpecOneRun == InitOneRun /\ [][NextOneRun]_vars

\* add_log on its own: the messages of a long batch, one call after another
MaxLogCalls == 120
LogTexts == {"dry"}

InitLog ==
  /\ Init
  /\ manifest = <<RowA>>
  /\ dry_run
  /\ local_tree = {}
  /\ ledgerFile = <<>>
  /\ files = NoFiles
  /\ max_retries = 0

AddLog ==
  /\ Len(logged) < MaxLogCalls
  /\ \E message \in LogTexts :
        /\ log_messages' = add_log(log_messages, log_entry(Len(logged) + 1, message))
        /\ logged' = Append(logged, log_entry(Len(logged) + 1, message))
  /\ UNCHANGED <<config, disk, downloaded, idx, pc, counters, fetcher,
                 sleep_time, exit_status, summary, run, outcomes, last_run,
                 ledgerAtStart>>

SpecLog == InitLog /\ [][AddLog]_vars

TypeOK ==
  /\ pc \in LoopPcs \cup EndPcs \cup {"summary"}
  /\ idx \in 1..(Len(manifest) + 1)
  /\ attempt \in 0..(max_retries + 1)


\* =================================================================
\* Properties
\* =================================================================
FetcherPcs == {"get", "stream", "backoff", "ret_ok", "ret_fail"}
prev == last_run
FetchOutcomes == {"ok", "fail"}

\* C1: one call of download_file issues at most max_retries + 1 GET
\* requests, and exactly max_retries + 1 when it returns failure
C1_RetryBound ==
  /\ gets <= max_retries + 1
  /\ pc = "ret_fail" => gets = max_retries + 1

C1_Witness ==
  /\ pc = "ret_fail"
  /\ max_retries >= 1
  /\ gets = max_retries + 1

\* C2 (as stated): in a run that follows a completed run the fetcher is
\* invoked for no entry and every entry is skipped by rule 1 or rule 2
C2_Idempotence ==
  (run >= 2 /\ prev.end = "done") =>
     /\ pc \notin FetcherPcs
     /\ \A k \in 1..Len(outcomes) : outcomes[k].o \in {"logged", "exists"}

\* C2 (amended): in a run that follows a completed run, every entry the
\* completed run downloaded or skipped by rule 1 or 2 is skipped by rule 1
\* or 2; and if no fetch of the completed run failed, the fetcher is invoked
\* for no entry and nothing is downloaded
C2_IdempotenceAmended ==
  (run >= 2 /\ prev.end = "done") =>
     /\ \A k \in 1..Len(outcomes) :
           prev.outcomes[k].o \in {"ok", "logged", "exists"}
              => outcomes[k].o \in {"logged", "exists"}
     /\ (\A k \in 1..Len(prev.outcomes) : prev.outcomes[k].o # "fail")
           => /\ pc \notin FetcherPcs
              /\ downloaded_count = 0
              /\ ledgerFile = ledgerAtStart
              /\ \A k \in 1..Len(outcomes) : outcomes[k].o \notin FetchOutcomes

C2_Witness ==
  /\ run >= 2
  /\ prev.end = "done"
  /\ pc = "done"
  /\ \E k \in 1..Len(outcomes) : prev.outcomes[k].o = "ok"
  /\ \A k \in 1..Len(prev.outcomes) : prev.outcomes[k].o # "fail"
  /\ downloaded_count = 0

\* C3: an entry whose fetch returned failure in one run reaches the fetcher
\* again in the next run (it is not skipped by rule 1 or rule 2)
C3_FailedIsRetried ==
  run >= 2 =>
     \A k \in 1..Len(outcomes) :
        (k <= Len(prev.outcomes) /\ prev.outcomes[k].o = "fail")
           => outcomes[k].o \in FetchOutcomes

\* C4: the skip checks are applied in the order ledger, exists in output,
\* found in local dir, dry run; the first match alone increments its
\* counter and the fetcher is not called
m_logged == save_path \in downloaded
m_exists == os_path_exists(files, dirs_after_makedirs, save_path)
m_local == local_check_dir # NoDir /\ file_exists_in_directory(local_tree, save_name)
m_dry == dry_run

OnlyCounter(c) ==
  /\ skipped_logged' = skipped_logged + (IF c = "logged" THEN 1 ELSE 0)
  /\ skipped_exists_output' = skipped_exists_output + (IF c = "exists" THEN 1 ELSE 0)
  /\ skipped_exists_local' = skipped_exists_local + (IF c = "local" THEN 1 ELSE 0)
  /\ skipped_dry_run' = skipped_dry_run + (IF c = "dry" THEN 1 ELSE 0)
  /\ downloaded_count' = downloaded_count
  /\ idx' = idx + 1
  /\ pc' \notin FetcherPcs
  /\ gets' = gets

C4_SkipPrecedence ==
  [][(pc = "check" /\ pc' # "interrupted") =>
       /\ m_logged => OnlyCounter("logged")
       /\ (~m_logged /\ m_exists) => OnlyCounter("exists")
       /\ (~m_logged /\ ~m_exists /\ m_local) => OnlyCounter("local")
       /\ (~m_logged /\ ~m_exists /\ ~m_local /\ m_dry) => OnlyCounter("dry")
       /\ (~m_logged /\ ~m_exists /\ ~m_local /\ ~m_dry) => pc' \in FetcherPcs]_vars

\* an entry that exists in the output and is found in the local directory
\* has been counted as "exists in output" only
C4_Witness ==
  /\ local_check_dir # NoDir
  /\ skipped_exists_output = 1
  /\ skipped_exists_local = 0
  /\ Len(outcomes) = 1
  /\ outcomes[1].o = "exists"
  /\ file_exists_in_directory(local_tree, save_name_of(manifest[1]))

\* C5: with dry-run the fetcher is never invoked, nothing is downloaded,
\* the ledger file is unchanged and every entry not matched by rules 1-3 is
\* counted as a dry-run skip
MatchedBy123(k) ==
  LET sp == save_path_of(output, manifest[k])
  IN  \/ sp \in downloaded
      \/ os_path_exists(files, dirs, sp)
      \/ local_check_dir # NoDir
           /\ file_exists_in_directory(local_tree, save_name_of(manifest[k]))

C5_DryRun ==
  dry_run =>
     /\ pc \notin FetcherPcs
     /\ gets = 0
     /\ downloaded_count = 0
     /\ ledgerFile = ledgerAtStart
     /\ skipped_dry_run = Cardinality({k \in 1..Len(outcomes) : ~MatchedBy123(k)})

C5_Witness ==
  /\ dry_run
  /\ pc = "done"
  /\ Len(manifest) >= 2
  /\ skipped_dry_run = Len(manifest)


\* C6: a save path recorded in the ledger under any output root is found
\* by load_downloaded under the current root: the set it returns contains
\* the save path the driver computes for that row
C6_LedgerRoundTrip ==
  \A i \in 1..Len(ledgerFile) : \A r \in RowSet : \A root \in Roots :
     ledgerFile[i] = save_path_of(root, r)
        => save_path_of(output, r) \in load_downloaded(output, ledgerFile)

OnlyThisAttempt(n) == files[save_path] = [k \in 1..n |-> <<k, body>>]

C8_NoMerge ==
  /\ pc = "stream" => OnlyThisAttempt(bytes_downloaded)
  /\ pc = "ret_ok" => OnlyThisAttempt(body)

C8_Witness ==
  /\ pc = "ret_ok"
  /\ attempt >= 1
  /\ body >= 1

\* C9: at every point of the batch loop a KeyboardInterrupt ends the run
\* (it is not handled as a failed attempt); the step that takes it changes neither the ledger nor the
\* position in the manifest and sets exit status 0; afterwards nothing more
\* happens in that run
StoppedByInterrupt ==
  \/ MainInterrupted
  \/ BackoffInterrupted
  \/ GetRaises /\ pc' = "interrupted"
  \/ StreamRaises /\ pc' = "interrupted"

C9_Interruption ==
  [][/\ pc' = "interrupted" => exit_status' = 0
     /\ pc \in LoopPcs => ENABLED StoppedByInterrupt
     /\ (pc # "interrupted" /\ pc' = "interrupted") =>
           UNCHANGED <<ledgerFile, files, idx, outcomes, counters>>
     /\ pc = "interrupted" =>
           /\ run' = run + 1
           /\ UNCHANGED <<ledgerFile, files>>]_vars

C9_Witness ==
  /\ pc = "interrupted"
  /\ exit_status = 0
  /\ idx < Len(manifest)
  /\ Len(ledgerFile) > Len(ledgerAtStart)

\* C10: download_file never lets an ordinary failure escape: without
\* cancellation a run that has entered the batch loop always reaches the
\* summary, having processed every entry once, in manifest order
AllProcessedInOrder ==
  /\ Len(outcomes) = Len(manifest)
  /\ \A k \in 1..Len(outcomes) : outcomes[k].i = k
  /\ summary.printed

C10_FailuresNeverAbort ==
  (pc \in LoopPcs) ~> (pc = "done" /\ AllProcessedInOrder)

C10_Witness ==
  /\ pc = "done"
  /\ Len(manifest) >= 2
  /\ outcomes[1].o = "fail"
  /\ outcomes[2].o \in FetchOutcomes

\* C11: after the failed attempt with index a < max_retries download_file
\* sleeps between base_delay * 2^(a+1) and base_delay * 2^(a+1) + jitter
\* before attempt a+1 is requested; after the failed attempt with index
\* max_retries it does not sleep and returns failure
AttemptFails == pc \in {"get", "stream"} /\ attempt' = attempt + 1

C11_BackoffSchedule ==
  [][/\ (AttemptFails /\ attempt < max_retries) =>
           /\ pc' = "backoff"
           /\ sleep_time' >= base_delay * (2 ^ (attempt + 1))
           /\ sleep_time' <= base_delay * (2 ^ (attempt + 1)) + jitter
     /\ (AttemptFails /\ attempt = max_retries) =>
           /\ pc' = "ret_fail"
           /\ sleep_time' = 0
     /\ (pc' = "get" /\ attempt' >= 1) => (pc = "backoff" /\ attempt' = attempt)]_vars

\* the second retry waits four times the base delay plus the whole jitter
C11_Witness ==
  /\ pc = "backoff"
  /\ attempt = 2
  /\ jitter >= 1
  /\ sleep_time = 4 * base_delay + jitter

\* C12: the retry loop moves Attempting -> Succeeded | RetryScheduled |
\* Exhausted and RetryScheduled -> Attempting only; every call ends; after
\* the attempt that streamed the body to its end nothing more is requested
\* or slept; failure is returned only when the attempt with index
\* max_retries has failed
phase ==
  CASE pc \in {"get", "stream"} -> "Attempting"
    [] pc = "backoff" -> "RetryScheduled"
    [] pc = "ret_ok" -> "Succeeded"
    [] pc = "ret_fail" -> "Exhausted"
    [] OTHER -> "Outside"

C12_RetryStateMachine ==
  /\ (phase \in {"Attempting", "RetryScheduled"})
        ~> (phase \in {"Succeeded", "Exhausted"})
  /\ [][/\ phase = "Attempting" =>
               phase' \in {"Attempting", "Succeeded", "RetryScheduled", "Exhausted"}
        /\ phase = "RetryScheduled" => phase' = "Attempting"
        /\ phase \in {"Succeeded", "Exhausted"} =>
              (phase' = "Outside" /\ UNCHANGED <<gets, attempt>>)
        /\ phase' = "Succeeded" =>
              (pc = "stream" /\ bytes_downloaded = body
                 /\ UNCHANGED <<gets, attempt, files>>)]_vars
  /\ [](phase = "Exhausted" => (attempt = max_retries + 1 /\ gets = max_retries + 1))
  /\ [](phase = "Succeeded" => (attempt <= max_retries /\ gets = attempt + 1))

\* success at the second attempt, after one backoff sleep
C12_Witness ==
  /\ phase = "Succeeded"
  /\ attempt = 1
  /\ gets = 2
  /\ sleep_time = 0

\* C13: download_file returning, with success or failure, is followed by a
\* pause between base_delay and base_delay + jitter on the same entry; the
\* driver moves past a fetched entry only when that pause ends, so the next
\* fetch starts after it; a skipped entry moves on without a pause
C13_Pacing ==
  [][/\ (pc \in {"ret_ok", "ret_fail"} /\ pc' # "interrupted") =>
          (pc' = "pace" /\ idx' = idx
             /\ sleep_time' >= base_delay
             /\ sleep_time' <= base_delay + jitter)
     /\ pc' = "pace" => pc \in {"ret_ok", "ret_fail"}
     /\ (idx' = idx + 1 /\ pc \in FetcherPcs \cup {"pace"}) => pc = "pace"
     /\ (idx' = idx + 1 /\ pc = "check") =>
          (pc' \in {"check", "summary"} /\ sleep_time = 0 /\ sleep_time' = 0)
     /\ (pc = "check" /\ pc' \in FetcherPcs) => sleep_time = 0]_vars

\* the fetch of the second entry has started after the first one failed
C13_Witness ==
  /\ idx = 2
  /\ pc = "get"
  /\ outcomes[1].o = "fail"
  /\ jitter >= 1
  /\ sleep_time = 0

\* C14: a step that skips an entry (rules 1-4) creates no directory and
\* changes nothing else in the output tree
C14_SkipLeavesTreeAlone ==
  [][(pc = "check" /\ idx' = idx + 1) => UNCHANGED <<dirs, files>>]_vars

\* C15: the rolling buffer holds at most LogWindow entries, and they are
\* the most recent min(n, LogWindow) of the n entries added, in the order
\* they were added
C15_LastTwentyWindow ==
  LET n == Len(logged)
      k == IF n < LogWindow THEN n ELSE LogWindow
  IN  /\ Len(log_messages) <= LogWindow
      /\ log_messages = SubSeq(logged, n - k + 1, n)

\* the window has slid: the oldest entry kept is not the first one added
C15_Witness ==
  /\ Len(logged) > LogWindow + 1
  /\ Len(log_messages) = LogWindow
  /\ log_messages[1] = logged[Len(logged) - LogWindow + 1]
  /\ log_messages[1] # logged[1]

\* C16: when a run has ended (completed or interrupted), every file in the
\* output tree existed before the first run or holds the whole body of one
\* 200 response; and an entry skipped as "exists in output" has such a file
WholeBody(content) ==
  /\ Len(content) >= 1
  /\ \A k \in 1..Len(content) : content[k] = <<k, Len(content)>>

Intact(p) == files[p] = PreExisting \/ WholeBody(files[p])

C16_NoTruncatedFile ==
  /\ pc \in EndPcs => \A p \in DOMAIN files : Intact(p)
  /\ \A k \in 1..Len(outcomes) :
        LET p == save_path_of(output, manifest[outcomes[k].i])
        IN  (outcomes[k].o = "exists" /\ p \in DOMAIN files) => Intact(p)

\* C17: every processed entry is counted in exactly one of downloaded,
\* the four skip counters and failed; no counter decreases during a run;
\* the summary shows downloaded + skips = total_files - failed fetches
Count(o) == Cardinality({k \in 1..Len(outcomes) : outcomes[k].o = o})

Counted ==
  downloaded_count + skipped_logged + skipped_exists_output
    + skipped_exists_local + skipped_dry_run

C17_CounterConservation ==
  /\ [](/\ downloaded_count = Count("ok")
        /\ skipped_logged = Count("logged")
        /\ skipped_exists_output = Count("exists")
        /\ skipped_exists_local = Count("local")
        /\ skipped_dry_run = Count("dry")
        /\ Counted + Count("fail") = Len(outcomes)
        /\ \A k \in 1..Len(outcomes) : outcomes[k].i = k
        /\ pc \in (LoopPcs \ {"pace"}) \cup {"summary", "done"} => Len(outcomes) = idx - 1
        /\ pc = "pace" => Len(outcomes) = idx)
  /\ [](summary.printed =>
          /\ summary.total_files = Len(manifest)
          /\ summary.downloaded_count + summary.skipped_logged
                + summary.skipped_exists_output + summary.skipped_exists_local
                + summary.skipped_dry_run = summary.total_files - Count("fail")
          /\ Counted <= summary.total_files
          /\ (Counted = summary.total_files) <=> (Count("fail") = 0))
  /\ [][run' = run =>
          /\ downloaded_count' >= downloaded_count
          /\ skipped_logged' >= skipped_logged
          /\ skipped_exists_output' >= skipped_exists_output
          /\ skipped_exists_local' >= skipped_exists_local
          /\ skipped_dry_run' >= skipped_dry_run
          /\ Count("fail")' >= Count("fail")]_vars

\* a summary after one download and one failed fetch
C17_Witness ==
  /\ summary.printed
  /\ Count("fail") = 1
  /\ downloaded_count = 1
  /\ Counted = Len(manifest) - 1

\* C18: the ledger is appended to only when download_file has returned
\* success and before the pacing sleep; in every state, also after an
\* interruption, each path appended in this run names an existing file
\* that holds the whole body
AppendedThisRun == {ledgerFile[k] : k \in (Len(ledgerAtStart) + 1)..Len(ledgerFile)}

C18_LedgerImpliesWholeFile ==
  /\ [](\A p \in AppendedThisRun : p \in DOMAIN files /\ WholeBody(files[p]))
  /\ [][ledgerFile' # ledgerFile =>
          /\ pc = "ret_ok"
          /\ pc' = "pace"
          /\ ledgerFile' = Append(ledgerFile, save_path)
          /\ WholeBody(files[save_path])
          /\ Len(files[save_path]) = body
          /\ files' = files]_vars

\* interrupted while the second file was being written: the first one is
\* in the ledger and whole, the second one is truncated and not recorded
C18_Witness ==
  /\ pc = "interrupted"
  /\ Len(ledgerFile) = Len(ledgerAtStart) + 1
  /\ \E p \in DOMAIN files : ~Intact(p)

\* C19: during a run the in-memory ledger set does not change; once a fetch
\* for a save path has succeeded, every later row with that save path is
\* skipped as "exists in output" without a fetch; the ledger gains at most
\* one line per save path in a run
PathOf(k) == save_path_of(output, manifest[k])

C19_OneDownloadPerPath ==
  /\ [][run' = run => downloaded' = downloaded]_vars
  /\ [](\A j, k \in 1..Len(outcomes) :
          (j < k /\ outcomes[j].o = "ok" /\ PathOf(j) = PathOf(k))
             => outcomes[k].o = "exists")
  /\ [](pc \in FetcherPcs =>
          \A j \in 1..Len(outcomes) :
             (outcomes[j].o = "ok" /\ j < idx) => PathOf(j) # save_path)
  /\ [](\A j, k \in (Len(ledgerAtStart) + 1)..Len(ledgerFile) :
          j # k => ledgerFile[j] # ledgerFile[k])

\* the same row twice: downloaded once, then skipped by rule 2 although the
\* set loaded at startup does not contain it
C19_Witness ==
  /\ pc = "done"
  /\ Len(manifest) >= 2
  /\ PathOf(1) = PathOf(2)
  /\ outcomes[1].o = "ok"
  /\ outcomes[2].o = "exists"
  /\ PathOf(1) \notin downloaded
  /\ skipped_logged = 0

====
